---- MODULE Spec2Model ----
(***************************************************************************)
(* Model of src/src/Elem.js: the node builder `n`, the Elem constructor    *)
(* with its id indexing pass, the render / unrender walks and the live     *)
(* mutation API, over an explicit model of the host document (the DOM      *)
(* nodes the code creates and the calls it makes on them).                 *)
(*                                                                         *)
(* The node tree is kept as an arena: a sequence of node records in        *)
(* depth-first pre-order, index 1 being the root, each record naming its   *)
(* children by index.  JavaScript values that the code passes around are   *)
(* tagged records [k, v] (see Null, Undefined, HostRef, CompRef, NodeRef). *)
(*                                                                         *)
(* Spec is the tree: constructor, render, unrender, lookup and mutation.   *)
(* SpecBuilder applies the builder helpers n.elem, n.text and n.component  *)
(* to their documented call patterns, and SpecInput is the Input component *)
(* of src/src/Input.js.                                                    *)
(***************************************************************************)
EXTENDS Integers, Sequences, FiniteSets, TLC

(* ------------------------------ bounds -------------------------------- *)

\* Number of render calls (on the tree or, by its owner, on a handle)
\* explored in one behaviour; each one allocates fresh host nodes.
MaxRenders == 2

\* Number of mutation calls that change the tree explored in one behaviour.
MaxMutations == 1

(* ------------------- strings thrown by the code ----------------------- *)

NoExc == "none"
AlreadyRendered == "Already rendered"
UnknownNodeId == "Unknown node id"
NotAnElementNode == "Node must be of type element"
UnknownNodeType == "Unknown node type"
InvalidNodeShape == "Invalid Elem node"
DuplicateNodeId == "Node id used multiple times"
\* what the engine throws for a property access on null / undefined and for
\* a call of something that is not a function
TypeError == "TypeError"

(* --------------------------- JS values -------------------------------- *)

Null == [k |-> "null", v |-> 0]
Undefined == [k |-> "undefined", v |-> 0]
HostRef(h) == [k |-> "host", v |-> h]
CompRef(c) == [k |-> "component", v |-> c]
NodeRef(i) == [k |-> "node", v |-> i]
Truthy(x) == x.k \notin {"null", "undefined"}

\* Class names: a string is its sequence of space separated words
NoClass == [k |-> "undefined", toks |-> <<>>]
NullClass == [k |-> "null", toks |-> <<>>]
StrClass(toks) == [k |-> "string", toks |-> toks]
ArrClass(toks) == [k |-> "array", toks |-> toks]
\* JS truthiness of a class name: a non-empty string, or any array
ClassTruthy(c) == (c.k = "string" /\ c.toks # <<>>) \/ c.k = "array"

NoId == "<none>"
EmptyMap == [a \in {} |-> "none"]

(* ------------------------- host document ------------------------------ *)

\* A host node.  parentNode = 0 and an empty childNodes stand for null / none.
NewElement(tagName) ==
    [nodeType |-> "element", tagName |-> tagName, data |-> "none",
     attrs |-> EmptyMap, className |-> NullClass, listeners |-> {},
     childNodes |-> <<>>, parentNode |-> 0]

NewTextNode(text) ==
    [nodeType |-> "text", tagName |-> "#text", data |-> text,
     attrs |-> EmptyMap, className |-> NullClass, listeners |-> {},
     childNodes |-> <<>>, parentNode |-> 0]

\* The container handed to render: host node 1, which already has a child.
Container == 1
InitDom ==
    << [NewElement("body") EXCEPT !.childNodes = <<2>>],
       [NewTextNode("old") EXCEPT !.parentNode = 1] >>

\* Host nodes live in numbered slots.  A node that nothing can reach any more
\* (see Collect) leaves its slot free, and document.createElement /
\* createTextNode put the node they create in the first free slot.
Freed ==
    [nodeType |-> "freed", tagName |-> "none", data |-> "none",
     attrs |-> EmptyMap, className |-> NullClass, listeners |-> {},
     childNodes |-> <<>>, parentNode |-> 0]

Alloc(d) ==
    IF \E i \in DOMAIN d : d[i] = Freed
    THEN CHOOSE i \in DOMAIN d : d[i] = Freed /\ \A j \in 1..(i - 1) : d[j] # Freed
    ELSE Len(d) + 1

Place(d, el, rec) ==
    IF el <= Len(d) THEN [d EXCEPT ![el] = rec] ELSE Append(d, rec)

RECURSIVE Top(_, _)
Top(d, h) == IF d[h].parentNode = 0 THEN h ELSE Top(d, d[h].parentNode)

RECURSIVE Trim(_)
Trim(d) ==
    IF d # <<>> /\ d[Len(d)] = Freed THEN Trim(SubSeq(d, 1, Len(d) - 1)) ELSE d

\* The host nodes a set of JS values refers to
HostsOf(values) == {x.v : x \in {y \in values : y.k = "host"}}

\* Drops the host nodes that are in no tree holding a referenced node.
Collect(d, refs) ==
    LET tops == {Top(d, h) : h \in refs \cup {Container}}
    IN Trim([h \in DOMAIN d |-> IF Top(d, h) \in tops THEN d[h] ELSE Freed])

hostSetAttribute(dom, el, key, value) ==
    [dom EXCEPT ![el].attrs =
        [a \in DOMAIN dom[el].attrs \cup {key} |->
            IF a = key THEN value ELSE dom[el].attrs[a]]]

hostRemoveAttribute(dom, el, key) ==
    [dom EXCEPT ![el].attrs =
        [a \in DOMAIN dom[el].attrs \ {key} |-> dom[el].attrs[a]]]

hostAppendChild(dom, parent, child) ==
    [dom EXCEPT ![parent].childNodes = Append(@, child),
                ![child].parentNode = parent]

RECURSIVE SeqWithout(_, _)
SeqWithout(s, x) ==
    IF s = <<>> THEN <<>>
    ELSE IF Head(s) = x THEN SeqWithout(Tail(s), x)
    ELSE <<Head(s)>> \o SeqWithout(Tail(s), x)

hostRemoveChild(dom, parent, child) ==
    [dom EXCEPT ![parent].childNodes = SeqWithout(@, child),
                ![child].parentNode = 0]

hostAddEventListener(dom, el, key, cb) ==
    [dom EXCEPT ![el].listeners = @ \cup {<<key, cb>>}]

hostRemoveEventListener(dom, el, key, cb) ==
    [dom EXCEPT ![el].listeners = @ \ {<<key, cb>>}]

(* ----------------------------- node builder --------------------------- *)

\* The node records the builder `n` returns, as arena entries.  `attributes`
\* is the key/value object (absent = empty), `events` the key/callback
\* pairs in insertion order, `children` the arena indices of the children.
TagNode(id, tagName, className, attributes, events, children) ==
    [type |-> "tag", id |-> id, tagName |-> tagName, text |-> "none",
     component |-> 0, className |-> className, attributes |-> attributes,
     events |-> events, children |-> children, el |-> Undefined]

TextNode(id, text) ==
    [type |-> "text", id |-> id, tagName |-> "none", text |-> text,
     component |-> 0, className |-> NoClass, attributes |-> EmptyMap,
     events |-> <<>>, children |-> <<>>, el |-> Undefined]

ComponentNode(id, component) ==
    [type |-> "component", id |-> id, tagName |-> "none", text |-> "none",
     component |-> component, className |-> NoClass, attributes |-> EmptyMap,
     events |-> <<>>, children |-> <<>>, el |-> Undefined]

(* ------------------------ embedded components ------------------------- *)

\* A component handle embedded in a tree is itself an Elem (the class is its
\* own component: render(div) / unrender()), owned by the caller and shared
\* by reference.  Handle 1 is an Elem whose root is an element, so its render
\* returns that element; handle 2 is an Elem whose root is a component node
\* with nothing to render, so its render returns null.
Handles == {1, 2}
HandleRendersElement(c) == c = 1

(* ------------------------- tree descriptions -------------------------- *)

\* div#root [ "hello" ]
DescHello ==
    << TagNode("root", "div", NoClass, EmptyMap, <<>>, <<2>>),
       TextNode(NoId, "hello") >>

\* div.box[type=text](click) [ span#label.a.b(focus), "hi"#t, component#c ]
DescRich ==
    << TagNode(NoId, "div", StrClass(<<"box">>), [a \in {"type"} |-> "text"],
               << <<"click", "onClick">> >>, <<2, 3, 4>>),
       TagNode("label", "span", ArrClass(<<"a", "b">>), EmptyMap,
               << <<"focus", "onFocus">> >>, <<>>),
       TextNode("t", "hi"),
       ComponentNode("c", 1) >>

\* a component root whose handle renders an element
DescCompElement == << ComponentNode("c", 1) >>

\* a component root whose handle renders nothing
DescCompNothing == << ComponentNode("c", 2) >>

\* a text root
DescText == << TextNode("t", "hi") >>

\* div#x [ span#x ]: parent and child share an id
DescDupNested ==
    << TagNode("x", "div", NoClass, EmptyMap, <<>>, <<2>>),
       TagNode("x", "span", NoClass, EmptyMap, <<>>, <<>>) >>

\* div [ span [ "a"#d ], component#d ]: a text and a component node at
\* different depths share an id
DescDupDeep ==
    << TagNode(NoId, "div", NoClass, EmptyMap, <<>>, <<2, 4>>),
       TagNode(NoId, "span", NoClass, EmptyMap, <<>>, <<3>>),
       TextNode("d", "a"),
       ComponentNode("d", 1) >>

\* div [ span [ "a" ], component#slot, "b" ]: three levels, and a component
\* node whose handle slot has been cleared ({component: null})
DescNested ==
    << TagNode(NoId, "div", NoClass, EmptyMap, <<>>, <<2, 4, 5>>),
       TagNode(NoId, "span", NoClass, EmptyMap, <<>>, <<3>>),
       TextNode(NoId, "a"),
       ComponentNode("slot", 0),
       TextNode(NoId, "b") >>

Descriptions ==
    {DescHello, DescRich, DescCompElement, DescCompNothing, DescText,
     DescDupNested, DescDupDeep, DescNested}

\* The ids occurring in a description, and whether one occurs twice
IdsOf(desc) == {desc[i].id : i \in DOMAIN desc} \ {NoId}
HasDuplicateIds(desc) ==
    \E i, j \in DOMAIN desc : i # j /\ desc[i].id # NoId /\ desc[i].id = desc[j].id

(* ------------------------------ state --------------------------------- *)

VARIABLES
    input,           \* the constructor's argument: [fn, desc] (the builder
                     \* call in SpecBuilder, the value in SpecInput)
    status,          \* "new" before the constructor ran, then "ok" or "failed"
    node,            \* this.node (the arena; <<>> while there is none)
    idNode,          \* this.idNode: id -> arena index
    element,         \* this.element
    eventListeners,  \* this.eventListeners (<<>> for undefined / null / [])
    dom,             \* the host document: host node id -> host node
    hElement,        \* for each handle, its own this.element
    hLog,            \* for each handle, the calls the tree delegated to it:
                     \* [last, alternated], see Delegated
    nRenders,        \* render calls made so far
    nMutations,      \* mutation calls that changed the tree so far
    phase,           \* history: where the render / unrender calls left the
                     \* tree, see the Phase definitions
    cycle,           \* history: the render, unrender, render round trip under
                     \* way, see the Cycle definitions
    ret,             \* the last call: [op, id, exc, val, calls]
    inputValue,      \* Input.js: this.value of the Input component
    elValue          \* Input.js: the value property of its live element

\* The variables of the Input component, which the tree's operations and
\* the builder helpers leave alone
inputVars == <<inputValue, elValue>>

vars ==
    <<input, status, node, idNode, element, eventListeners, dom, hElement,
      hLog, nRenders, nMutations, phase, cycle, ret, inputValue, elValue>>

\* The last call: the operation, the node id it was given (NoId where it
\* takes none), the exception it threw (NoExc when it returned), the value
\* it returned (Undefined for the mutations, which return `this`) and the
\* number of host calls this tree made in it.
Ret(op, id, exc, val, calls) ==
    [op |-> op, id |-> id, exc |-> exc, val |-> val, calls |-> calls]

(* ---------------------------- constructor ----------------------------- *)

\* _cloneNode has no return statement: for any node object it builds the
\* copy and returns undefined (<<>> stands for undefined here).
_cloneNode(desc) == <<>>

RECURSIVE _getNodeIds(_, _)
RECURSIVE getNodeIdsChildren(_, _, _)

\* st = [node, idNode, exc]; i the arena index of the node visited
_getNodeIds(st, i) ==
    IF st.exc # NoExc THEN st
    ELSE
      LET nd == st.node[i]
          id == nd.id
      IN IF id # NoId /\ id \in DOMAIN st.idNode
         THEN [st EXCEPT !.exc = DuplicateNodeId]
         ELSE
           LET idn == IF id = NoId THEN st.idNode
                      ELSE [x \in DOMAIN st.idNode \cup {id} |->
                               IF x = id THEN i ELSE st.idNode[x]]
               st1 == [st EXCEPT !.idNode = idn, !.node[i].el = Null]
           IN CASE nd.type = "tag" ->
                     getNodeIdsChildren(st1, nd.children, 1)
                [] nd.type = "component" ->
                     [st1 EXCEPT !.node[i].el =
                         IF nd.component = 0 THEN Null ELSE CompRef(nd.component)]
                [] OTHER -> st1

getNodeIdsChildren(st, children, k) ==
    IF k > Len(children) THEN st
    ELSE getNodeIdsChildren(_getNodeIds(st, children[k]), children, k + 1)

\* new Elem(node)
Construct ==
    /\ status = "new"
    /\ LET root == IF input.fn THEN input.desc ELSE _cloneNode(input.desc)
           st == IF root = <<>>
                 THEN [node |-> <<>>, idNode |-> EmptyMap, exc |-> InvalidNodeShape]
                 ELSE _getNodeIds([node |-> root, idNode |-> EmptyMap,
                                   exc |-> NoExc], 1)
       IN IF st.exc = NoExc
          THEN /\ status' = "ok"
               /\ node' = st.node
               /\ idNode' = st.idNode
               /\ ret' = Ret("new", NoId, NoExc, Undefined, 0)
          ELSE /\ status' = "failed"
               /\ UNCHANGED <<node, idNode>>
               /\ ret' = Ret("new", NoId, st.exc, Undefined, 0)
    /\ UNCHANGED <<input, element, eventListeners, dom, hElement, hLog, nRenders,
                   nMutations, phase, cycle>>
    /\ UNCHANGED inputVars

(* --------------------- render / unrender walks ------------------------ *)

\* The record of the calls the tree made on one handle: the last call
\* ("none" before the first) and whether the calls so far alternated
\* render, unrender, render, ... starting with render.
NoCalls == [last |-> "none", alternated |-> TRUE]
Delegated(log, call) ==
    [last |-> call,
     alternated |-> log.alternated /\ (IF call = "render"
                                        THEN log.last # "render"
                                        ELSE log.last = "render")]

\* The walks thread a record s = [dom, node, evl, hElement, hLog, calls, exc,
\* log]: the host document, the arena, this.eventListeners, the handles'
\* state, the delegation log, the number of host calls this tree made, the
\* exception in flight (NoExc while there is none), and the steps of the
\* render walk in the order it took them: <<"visit", i>> when _renderNode
\* is entered for node i, <<"create", i>> when the node's host node is
\* created and <<"append", i>> when it is appended to its container.
Walk ==
    [dom |-> dom, node |-> node, evl |-> eventListeners, hElement |-> hElement,
     hLog |-> hLog, calls |-> 0, exc |-> NoExc, log |-> <<>>]

\* handle.render(div): the handle is an Elem, so it throws when its own
\* this.element is set, and otherwise renders its root and remembers it.
handleRender(s, div, c) ==
    IF Truthy(s.hElement[c])
    THEN [s |-> [s EXCEPT !.exc = AlreadyRendered], val |-> Undefined]
    ELSE IF HandleRendersElement(c)
    THEN LET el == Alloc(s.dom)
             d1 == Place(s.dom, el, NewElement("span"))
             d2 == IF Truthy(div) THEN hostAppendChild(d1, div.v, el) ELSE d1
         IN [s |-> [s EXCEPT !.dom = d2, !.hElement[c] = HostRef(el)],
             val |-> HostRef(el)]
    ELSE [s |-> s, val |-> Null]

\* handle.unrender(): returns at once when the handle is not rendered, and
\* otherwise detaches its root element from the element's parent.
handleUnrender(s, c) ==
    IF ~Truthy(s.hElement[c]) THEN s
    ELSE LET el == s.hElement[c].v
             parent == s.dom[el].parentNode
         IN IF parent = 0
            THEN [s EXCEPT !.exc = TypeError]
            ELSE [s EXCEPT !.dom = hostRemoveChild(s.dom, parent, el),
                           !.hElement[c] = Null]

\* for (key in node.attributes) el.setAttribute(key, node.attributes[key])
renderAttributes(d, el, attributes) ==
    [d EXCEPT ![el].attrs =
        [a \in DOMAIN d[el].attrs \cup DOMAIN attributes |->
            IF a \in DOMAIN attributes THEN attributes[a] ELSE d[el].attrs[a]]]

\* for (key in node.events) { el.addEventListener(key, cb); push([el, key, cb]) }
RECURSIVE renderEvents(_, _, _, _)
renderEvents(s, el, events, k) ==
    IF k > Len(events) THEN s
    ELSE renderEvents(
           [s EXCEPT !.dom = hostAddEventListener(s.dom, el, events[k][1], events[k][2]),
                     !.evl = Append(s.evl, <<el, events[k][1], events[k][2]>>),
                     !.calls = s.calls + 1],
           el, events, k + 1)

\* el.className = Array.isArray(c) ? c.join(' ') : c, when c is truthy
renderClassName(d, el, className) ==
    IF ClassTruthy(className)
    THEN [d EXCEPT ![el].className = StrClass(className.toks)]
    ELSE d

\* if (div) div.insertBefore(el, div.firstChild), in place of appendChild
renderPrepend(d, div, el) ==
    IF Truthy(div)
    THEN [d EXCEPT ![div.v].childNodes = <<el>> \o @, ![el].parentNode = div.v]
    ELSE d

\* if (div) div.appendChild(el)
renderAppend(d, div, el) ==
    IF Truthy(div) THEN hostAppendChild(d, div.v, el) ELSE d

\* node.component.render(div) without the check for an absent handle:
\* the call on null throws
renderNullHandle(s, i) ==
    [s |-> [s EXCEPT !.exc = TypeError, !.log = Append(s.log, <<"visit", i>>)],
     val |-> Undefined]

\* node.component ? ... : null, for an absent handle
renderNoHandle(s, i) ==
    [s |-> [s EXCEPT !.log = Append(s.log, <<"visit", i>>)], val |-> Null]

RECURSIVE _renderNode(_, _, _)
RECURSIVE renderChildren(_, _, _, _)

\* Returns [s, val]: the state after the walk of node i and the value
\* returned (meaningless when s.exc is set).
_renderNode(s, div, i) ==
    IF s.exc # NoExc THEN [s |-> s, val |-> Undefined]
    ELSE
      LET nd == s.node[i] IN
      CASE nd.type = "tag" ->
             LET el == Alloc(s.dom)
                 d1 == renderAttributes(Place(s.dom, el, NewElement(nd.tagName)),
                                        el, nd.attributes)
                 s1 == renderEvents(
                         [s EXCEPT !.dom = d1,
                                   !.calls = s.calls + 1 + Cardinality(DOMAIN nd.attributes),
                                   !.log = s.log \o << <<"visit", i>>, <<"create", i>> >>],
                         el, nd.events, 1)
                 d2 == renderClassName(s1.dom, el, nd.className)
                 d3 == renderAppend(d2, div, el)
                 s2 == [s1 EXCEPT !.dom = d3, !.node[i].el = HostRef(el),
                                  !.calls = s1.calls
                                            + (IF ClassTruthy(nd.className) THEN 1 ELSE 0)
                                            + (IF Truthy(div) THEN 1 ELSE 0),
                                  !.log = IF Truthy(div)
                                          THEN Append(s1.log, <<"append", i>>)
                                          ELSE s1.log]
             IN [s |-> renderChildren(s2, HostRef(el), nd.children, 1),
                 val |-> HostRef(el)]
        [] nd.type = "text" ->
             LET el == Alloc(s.dom)
                 d1 == Place(s.dom, el, NewTextNode(nd.text))
                 d2 == renderAppend(d1, div, el)
             IN [s |-> [s EXCEPT !.dom = d2, !.node[i].el = HostRef(el),
                                 !.calls = s.calls + 1
                                           + (IF Truthy(div) THEN 1 ELSE 0),
                                 !.log = s.log
                                         \o << <<"visit", i>>, <<"create", i>> >>
                                         \o (IF Truthy(div)
                                             THEN << <<"append", i>> >> ELSE <<>>)],
                 val |-> HostRef(el)]
        [] OTHER ->
             IF nd.component # 0
             THEN handleRender(
                    [s EXCEPT !.hLog[nd.component] = Delegated(@, "render"),
                              !.log = Append(s.log, <<"visit", i>>)],
                    div, nd.component)
             ELSE renderNoHandle(s, i)

\* the children loop run from the last child to the first
RECURSIVE renderChildrenBackwards(_, _, _, _)
renderChildrenBackwards(s, el, children, k) ==
    IF k > Len(children) THEN s
    ELSE renderChildrenBackwards(
           _renderNode(s, el, children[Len(children) + 1 - k]).s,
           el, children, k + 1)

\* for (i = 0; i < node.children.length; i++) this._renderNode(el, node.children[i])
renderChildren(s, el, children, k) ==
    IF k > Len(children) THEN s
    ELSE renderChildren(_renderNode(s, el, children[k]).s, el, children, k + 1)

RECURSIVE _unrenderNode(_, _)
RECURSIVE unrenderChildren(_, _, _)

_unrenderNode(s, i) ==
    IF s.exc # NoExc THEN s
    ELSE
      LET nd == s.node[i] IN
      CASE nd.type = "tag" ->
             unrenderChildren([s EXCEPT !.node[i].el = Null], nd.children, 1)
        [] nd.type = "text" ->
             [s EXCEPT !.node[i].el = Null]
        [] OTHER ->
             IF nd.component # 0
             THEN handleUnrender(
                    [s EXCEPT !.hLog[nd.component] = Delegated(@, "unrender")],
                    nd.component)
             ELSE s

unrenderChildren(s, children, k) ==
    IF k > Len(children) THEN s
    ELSE unrenderChildren(_unrenderNode(s, children[k]), children, k + 1)

\* removeListeners without the final `this.eventListeners = null`
RECURSIVE removeListenersNoReset(_, _)
removeListenersNoReset(s, k) ==
    IF k > Len(s.evl) THEN s
    ELSE removeListenersNoReset(
           [s EXCEPT !.dom = hostRemoveEventListener(s.dom, s.evl[k][1],
                                                     s.evl[k][2], s.evl[k][3]),
                     !.calls = s.calls + 1],
           k + 1)

\* for (let evl of this.eventListeners) evl[0].removeEventListener(evl[1], evl[2]);
\* this.eventListeners = null
RECURSIVE removeListeners(_, _)
removeListeners(s, k) ==
    IF k > Len(s.evl) THEN [s EXCEPT !.evl = <<>>]
    ELSE removeListeners(
           [s EXCEPT !.dom = hostRemoveEventListener(s.dom, s.evl[k][1],
                                                     s.evl[k][2], s.evl[k][3]),
                     !.calls = s.calls + 1],
           k + 1)

\* if (_getType(this.node) !== 'component')
\*     this.element.parentNode.removeChild(this.element)
detachRoot(s, el) ==
    IF s.exc # NoExc \/ s.node[1].type = "component" THEN s
    ELSE LET parent == s.dom[el.v].parentNode
         IN IF parent = 0
            THEN [s EXCEPT !.exc = TypeError]
            ELSE [s EXCEPT !.dom = hostRemoveChild(s.dom, parent, el.v),
                           !.calls = s.calls + 1]

\* What a render / unrender walk leaves behind
SetWalk(s, elem, val) ==
    /\ dom' = Collect(s.dom,
                      HostsOf({elem, val} \cup {s.node[i].el : i \in DOMAIN s.node}
                              \cup {s.hElement[c] : c \in Handles})
                      \cup {s.evl[k][1] : k \in DOMAIN s.evl})
    /\ node' = s.node
    /\ eventListeners' = s.evl
    /\ hElement' = s.hElement
    /\ hLog' = s.hLog

(* History of the render / unrender calls.                                *)
(*   phase: "fresh" before the first render call; "rendered" when the last *)
(*   render / unrender call was a render that returned; "unrendered" when  *)
(*   it was an unrender that returned; "broken" when it threw partway (a   *)
(*   render that throws AlreadyRendered leaves the phase as it is).        *)
(*   cycle: stage 1 after render(container) returned from a state with     *)
(*   every live reference and the ledger empty, with `pre` that state and  *)
(*   `mat` what the render produced; stage 2 after the unrender call made  *)
(*   right after it; stage 3 after the render(container) call made right   *)
(*   after that.  Any other call ends the cycle (stage 0).                 *)

\* A host subtree without the identities of its nodes
RECURSIVE Shape(_, _)
Shape(d, h) ==
    [nodeType |-> d[h].nodeType, tagName |-> d[h].tagName, data |-> d[h].data,
     attrs |-> d[h].attrs, className |-> d[h].className,
     listeners |-> d[h].listeners,
     childNodes |-> [k \in DOMAIN d[h].childNodes |-> Shape(d, d[h].childNodes[k])]]

NoShape ==
    [nodeType |-> "none", tagName |-> "none", data |-> "none",
     attrs |-> EmptyMap, className |-> NullClass, listeners |-> {},
     childNodes |-> <<>>]

\* What a render produced: the root it returned, the container's subtree
\* and the ledger, without the identities of the host nodes
Materialization(d, elem, evl) ==
    [root |-> IF elem.k = "host" THEN Shape(d, elem.v) ELSE NoShape,
     container |-> Shape(d, Container),
     ledger |-> [k \in DOMAIN evl |-> <<Shape(d, evl[k][1]), evl[k][2], evl[k][3]>>]]

\* The tree's state and the host document's
Snapshot ==
    [node |-> node, element |-> element, eventListeners |-> eventListeners,
     dom |-> dom, hElement |-> hElement]

\* Every element and text node's live reference is empty
RefsEmpty(nodes) ==
    \A i \in DOMAIN nodes : nodes[i].type # "component" => ~Truthy(nodes[i].el)

NoCycle == [stage |-> 0, pre |-> <<>>, mat |-> <<>>]

\* cycle after render(div) threw exc (or returned), leaving d, elem and evl
CycleRender(div, exc, d, elem, evl) ==
    IF div # HostRef(Container) THEN NoCycle
    ELSE IF cycle.stage = 2
    THEN [stage |-> 3, pre |-> Snapshot, mat |-> cycle.mat]
    ELSE IF exc = NoExc /\ RefsEmpty(node) /\ eventListeners = <<>>
    THEN [stage |-> 1, pre |-> Snapshot, mat |-> Materialization(d, elem, evl)]
    ELSE NoCycle

\* cycle after an unrender call
CycleUnrender ==
    IF cycle.stage \in {1, 3} /\ ret.exc = NoExc
    THEN [cycle EXCEPT !.stage = 2]
    ELSE NoCycle

\* The values a caller passes as the container
Divs == {HostRef(Container), Undefined}

\* elem.render(div)
Render(div) ==
    /\ status = "ok"
    /\ IF Truthy(element)
       THEN /\ ret' = Ret("render", NoId, AlreadyRendered, Undefined, 0)
            /\ cycle' = CycleRender(div, AlreadyRendered, dom, element, eventListeners)
            /\ UNCHANGED <<element, eventListeners, dom, node, hElement, hLog,
                           nRenders, nMutations, phase>>
       ELSE /\ nRenders < MaxRenders
            /\ nRenders' = nRenders + 1
            /\ LET r == _renderNode(Walk, div, 1)
                   elem == IF r.s.exc = NoExc THEN r.val ELSE element
                   val == IF r.s.exc = NoExc THEN r.val ELSE Undefined
               IN /\ SetWalk(r.s, elem, val)
                  /\ element' = elem
                  /\ ret' = Ret("render", NoId, r.s.exc, val, r.s.calls)
                  /\ phase' = IF r.s.exc = NoExc THEN "rendered" ELSE "broken"
                  /\ cycle' = CycleRender(div, r.s.exc, r.s.dom, elem, r.s.evl)
    /\ UNCHANGED <<input, status, idNode, nMutations>>
    /\ UNCHANGED inputVars

\* elem.unrender()
Unrender ==
    /\ status = "ok"
    /\ IF ~Truthy(element)
       THEN /\ ret' = Ret("unrender", NoId, NoExc, Undefined, 0)
            /\ phase' = IF phase = "fresh" THEN "fresh" ELSE "unrendered"
            /\ UNCHANGED <<element, eventListeners, dom, node, hElement, hLog>>
       ELSE LET s == detachRoot(_unrenderNode(removeListeners(Walk, 1), 1), element)
            IN /\ SetWalk(s, IF s.exc = NoExc THEN Null ELSE element, Undefined)
               /\ element' = IF s.exc = NoExc THEN Null ELSE element
               /\ ret' = Ret("unrender", NoId, s.exc, Undefined, s.calls)
               /\ phase' = IF s.exc = NoExc THEN "unrendered" ELSE "broken"
    /\ cycle' = CycleUnrender
    /\ UNCHANGED <<input, status, idNode, nRenders, nMutations>>
    /\ UNCHANGED inputVars

\* The handles embedded in the constructed tree
Embedded == {node[i].component : i \in DOMAIN node} \ {0}

\* The owner of a handle renders it on its own: handle.render(div)
OwnerRender(c) ==
    /\ status = "ok"
    /\ c \in Embedded
    /\ nRenders < MaxRenders
    /\ nRenders' = nRenders + 1
    /\ LET r == handleRender(Walk, HostRef(Container), c)
       IN /\ dom' = Collect(r.s.dom,
                            HostsOf({element, r.val}
                                    \cup {node[i].el : i \in DOMAIN node}
                                    \cup {r.s.hElement[h] : h \in Handles})
                            \cup {eventListeners[k][1] : k \in DOMAIN eventListeners})
          /\ hElement' = r.s.hElement
          /\ ret' = Ret("owner.render", NoId, r.s.exc, r.val, 0)
    /\ cycle' = NoCycle
    /\ UNCHANGED <<input, status, node, idNode, element, eventListeners, hLog,
                   nMutations, phase>>
    /\ UNCHANGED inputVars

\* The owner of a handle unrenders it on its own: handle.unrender()
OwnerUnrender(c) ==
    /\ status = "ok"
    /\ c \in Embedded
    /\ LET s == handleUnrender(Walk, c)
       IN /\ dom' = Collect(s.dom,
                            HostsOf({element}
                                    \cup {node[i].el : i \in DOMAIN node}
                                    \cup {s.hElement[h] : h \in Handles})
                            \cup {eventListeners[k][1] : k \in DOMAIN eventListeners})
          /\ hElement' = s.hElement
          /\ ret' = Ret("owner.unrender", NoId, s.exc, Undefined, 0)
    /\ cycle' = NoCycle
    /\ UNCHANGED <<input, status, node, idNode, element, eventListeners, hLog,
                   nRenders, nMutations, phase>>
    /\ UNCHANGED inputVars

(* ------------------------ lookup and mutation ------------------------- *)

\* Property names every object inherits from Object.prototype: the lookup
\* this.idNode[id] finds them although the index does not own them.
ProtoProps == {"constructor"}

\* getNode(id): [exc, val]
getNode(id) ==
    IF id \in DOMAIN idNode
    THEN [exc |-> NoExc, val |-> node[idNode[id]].el]
    ELSE IF id \in ProtoProps
    THEN [exc |-> NoExc, val |-> Undefined]
    ELSE [exc |-> UnknownNodeId, val |-> Undefined]

\* _getType(x): [exc, type].  x is a node of the arena, or whatever else a
\* caller passed: null / undefined (the property access throws), a host
\* node or a component (neither owns tagName, text or component).
_getType(x) ==
    CASE x.k = "node" -> [exc |-> NoExc, type |-> node[x.v].type]
      [] x.k \in {"null", "undefined"} -> [exc |-> TypeError, type |-> "none"]
      [] OTHER -> [exc |-> UnknownNodeType, type |-> "none"]

\* _validateIsTag(x): the exception thrown, or NoExc
_validateIsTag(x) ==
    LET t == _getType(x)
    IN IF t.exc # NoExc THEN t.exc
       ELSE IF t.type # "tag" THEN NotAnElementNode
       ELSE NoExc

\* className = className || null
normClassName(className) ==
    IF ClassTruthy(className) THEN className ELSE NullClass

\* The mutations thread s = [dom, node, calls, exc]
Mut == [dom |-> dom, node |-> node, calls |-> 0, exc |-> NoExc]

_setClassName(s, x, className) ==
    LET v == _validateIsTag(x)
        cn == normClassName(className)
    IN IF v # NoExc THEN [s EXCEPT !.exc = v]
       ELSE IF s.node[x.v].className = cn THEN s
       ELSE LET s1 == [s EXCEPT !.node[x.v].className = cn]
                el == s.node[x.v].el
            IN IF ~Truthy(el) THEN s1
               ELSE [s1 EXCEPT !.dom[el.v].className = cn, !.calls = s.calls + 1]

\* node.el.addAttribute(name, value): host elements have setAttribute and
\* removeAttribute and no addAttribute, so the call throws.
_setAttribute(s, x, name, value) ==
    LET v == _validateIsTag(x)
    IN IF v # NoExc THEN [s EXCEPT !.exc = v]
       ELSE LET attr == s.node[x.v].attributes
                el == s.node[x.v].el
            IN IF name \in DOMAIN attr /\ attr[name] = value THEN s
               ELSE LET s1 == [s EXCEPT !.node[x.v].attributes =
                                  [a \in DOMAIN attr \cup {name} |->
                                      IF a = name THEN value ELSE attr[a]]]
                    IN IF ~Truthy(el) THEN s1
                       ELSE [s1 EXCEPT !.exc = TypeError]

_removeAttribute(s, x, name) ==
    LET v == _validateIsTag(x)
    IN IF v # NoExc THEN [s EXCEPT !.exc = v]
       ELSE LET attr == s.node[x.v].attributes
                el == s.node[x.v].el
            IN IF name \notin DOMAIN attr THEN s
               ELSE LET s1 == [s EXCEPT !.node[x.v].attributes =
                                  [a \in DOMAIN attr \ {name} |-> attr[a]]]
                    IN IF ~Truthy(el) THEN s1
                       ELSE [s1 EXCEPT !.dom = hostRemoveAttribute(s.dom, el.v, name),
                                       !.calls = s.calls + 1]

_setDisabled(s, x, isDisabled) ==
    IF isDisabled
    THEN _setAttribute(s, x, "disabled", "disabled")
    ELSE _removeAttribute(s, x, "disabled")

\* The arguments the callers pass
IdArgs == IdsOf(input.desc) \cup {"nope", "constructor"}
MutIdArgs == IdsOf(input.desc) \cup {"nope"}
ClassArgs == {NoClass, StrClass(<<"x">>)}
AttrNames == {"title"}
AttrValues == {"a"}
RemoveNames == {"title"}

\* What a mutation leaves behind
SetMut(s, op, id) ==
    /\ IF s.node # node \/ s.dom # dom
       THEN nMutations < MaxMutations /\ nMutations' = nMutations + 1
       ELSE nMutations' = nMutations
    /\ dom' = s.dom
    /\ node' = s.node
    /\ ret' = Ret(op, id, s.exc, Undefined, s.calls)
    /\ cycle' = NoCycle
    /\ UNCHANGED <<input, status, idNode, element, eventListeners, hElement,
                   hLog, nRenders, phase>>
    /\ UNCHANGED inputVars

\* A mutation whose getNode(id) threw
Thrown(op, id, exc) ==
    /\ ret' = Ret(op, id, exc, Undefined, 0)
    /\ cycle' = NoCycle
    /\ UNCHANGED <<input, status, node, idNode, element, eventListeners, dom,
                   hElement, hLog, nRenders, nMutations, phase>>
    /\ UNCHANGED inputVars

GetNode(id) ==
    /\ status = "ok"
    /\ ret' = Ret("getNode", id, getNode(id).exc,
                  getNode(id).val, 0)
    /\ cycle' = NoCycle
    /\ UNCHANGED <<input, status, node, idNode, element, eventListeners, dom,
                   hElement, hLog, nRenders, nMutations, phase>>
    /\ UNCHANGED inputVars

SetClassName(className) ==
    /\ status = "ok"
    /\ SetMut(_setClassName(Mut, NodeRef(1), className), "setClassName", NoId)

SetNodeClassName(id, className) ==
    /\ status = "ok"
    /\ LET g == getNode(id)
       IN IF g.exc # NoExc THEN Thrown("setNodeClassName", id, g.exc)
          ELSE SetMut(_setClassName(Mut, g.val, className), "setNodeClassName", id)

SetAttribute(name, value) ==
    /\ status = "ok"
    /\ SetMut(_setAttribute(Mut, NodeRef(1), name, value), "setAttribute", NoId)

SetNodeAttribute(id, name, value) ==
    /\ status = "ok"
    /\ LET g == getNode(id)
       IN IF g.exc # NoExc THEN Thrown("setNodeAttribute", id, g.exc)
          ELSE SetMut(_setAttribute(Mut, g.val, name, value), "setNodeAttribute", id)

RemoveAttribute(name) ==
    /\ status = "ok"
    /\ SetMut(_removeAttribute(Mut, NodeRef(1), name), "removeAttribute", NoId)

RemoveNodeAttribute(id, name) ==
    /\ status = "ok"
    /\ LET g == getNode(id)
       IN IF g.exc # NoExc THEN Thrown("removeNodeAttribute", id, g.exc)
          ELSE SetMut(_removeAttribute(Mut, g.val, name), "removeNodeAttribute", id)

SetDisabled(isDisabled) ==
    /\ status = "ok"
    /\ SetMut(_setDisabled(Mut, NodeRef(1), isDisabled), "setDisabled", NoId)

SetNodeDisabled(id, isDisabled) ==
    /\ status = "ok"
    /\ LET g == getNode(id)
       IN IF g.exc # NoExc THEN Thrown("setNodeDisabled", id, g.exc)
          ELSE SetMut(_setDisabled(Mut, g.val, isDisabled), "setNodeDisabled", id)

Init ==
    /\ input \in [fn : BOOLEAN, desc : Descriptions]
    /\ status = "new"
    /\ node = <<>>
    /\ idNode = EmptyMap
    /\ element = Null
    /\ eventListeners = <<>>
    /\ dom = InitDom
    /\ hElement = [c \in Handles |-> Null]
    /\ hLog = [c \in Handles |-> NoCalls]
    /\ nRenders = 0
    /\ nMutations = 0
    /\ phase = "fresh"
    /\ cycle = NoCycle
    /\ ret = Ret("none", NoId, NoExc, Undefined, 0)
    /\ inputValue = Undefined
    /\ elValue = Undefined

Next ==
    \/ Construct
    \/ \E div \in Divs : Render(div)
    \/ Unrender
    \/ \E c \in Handles : OwnerRender(c)
    \/ \E c \in Handles : OwnerUnrender(c)
    \/ \E id \in IdArgs : GetNode(id)
    \/ \E c \in ClassArgs : SetClassName(c)
    \/ \E id \in MutIdArgs, c \in ClassArgs : SetNodeClassName(id, c)
    \/ \E name \in AttrNames, value \in AttrValues : SetAttribute(name, value)
    \/ \E id \in MutIdArgs, name \in AttrNames, value \in AttrValues :
          SetNodeAttribute(id, name, value)
    \/ \E name \in RemoveNames : RemoveAttribute(name)
    \/ \E id \in MutIdArgs, name \in RemoveNames : RemoveNodeAttribute(id, name)
    \/ \E b \in BOOLEAN : SetDisabled(b)
    \/ \E id \in MutIdArgs, b \in BOOLEAN : SetNodeDisabled(id, b)

Spec == Init /\ [][Next]_vars

(* ---------------------------- properties ------------------------------ *)

\* What a call on the tree can change: the tree's own fields, the host
\* document and the embedded handles
TreeState == <<node, idNode, element, eventListeners, dom, hElement>>

IdOps ==
    {"setNodeClassName", "setNodeAttribute", "removeNodeAttribute", "setNodeDisabled"}
RootAttrOps == {"setAttribute", "removeAttribute", "setDisabled"}

\* The last call named an indexed id, of a node of the given type
RetNamed(type) ==
    /\ ret.id \in DOMAIN idNode
    /\ node[idNode[ret.id]].type = type

\* C1: a render call made after a render that returned, with no unrender
\* in between, throws AlreadyRendered and changes nothing; an unrender call
\* on a tree never rendered or already unrendered returns and changes
\* nothing.
C1_RenderUnrenderAlternate ==
    [][ /\ (phase = "rendered" /\ ret'.op = "render")
            => (ret'.exc = AlreadyRendered /\ UNCHANGED TreeState)
        /\ (phase \in {"fresh", "unrendered"} /\ ret'.op = "unrender")
            => (ret'.exc = NoExc /\ UNCHANGED TreeState) ]_vars

\* C2: render(container) from a state with every live reference and the
\* ledger empty, followed at once by unrender(), returns, leaves every
\* element / text node's live reference and the ledger empty and the state
\* as it was before the render; a render(container) made right after that
\* returns and produces the same materialization as the first: the same
\* root subtree, container subtree and ledger up to node identity.
C2_RoundTrip ==
    /\ cycle.stage = 2 =>
          /\ ret.exc = NoExc
          /\ RefsEmpty(node)
          /\ eventListeners = <<>>
          /\ Snapshot = cycle.pre
    /\ cycle.stage = 3 =>
          /\ ret.exc = NoExc
          /\ Materialization(dom, element, eventListeners) = cycle.mat

\* C2 witness: the second render of a round trip of the tree with classes,
\* attributes, listeners and an embedded component has returned.
C2_Witness ==
    /\ cycle.stage = 3
    /\ input.desc = DescRich
    /\ ret.exc = NoExc
    /\ Len(eventListeners) = 2
    /\ Truthy(hElement[1])

\* C3: between operations, every element and text node has a live
\* reference exactly when the root live reference is present, and a
\* component node's reference is always its handle.
C3_LiveRefsConsistent ==
    status = "ok" =>
        \A i \in DOMAIN node :
            IF node[i].type = "component"
            THEN node[i].el = CompRef(node[i].component)
            ELSE Truthy(node[i].el) <=> Truthy(element)

\* C4: a render or unrender call that throws leaves the root live
\* reference, every node's live reference, the ledger and the host
\* document (attached listeners, the container's children) as they were.
C4_FailedCallChangesNothing ==
    [][ (ret'.op \in {"render", "unrender"} /\ ret'.exc # NoExc)
            => UNCHANGED <<element, node, eventListeners, dom>> ]_vars

\* C5: the calls the tree delegates to each embedded handle alternate
\* render, unrender, render, ... starting with render.
C5_DelegationAlternates ==
    \A c \in Handles : hLog[c].alternated

\* C6: construction from a description without duplicate ids succeeds and
\* indexes every id bearing node; construction from a description in which
\* two nodes share an id throws DuplicateNodeId.
C6_Construction ==
    status # "new" =>
        IF HasDuplicateIds(input.desc)
        THEN status = "failed" /\ ret.exc = DuplicateNodeId
        ELSE /\ status = "ok"
             /\ \A id \in IdsOf(input.desc) :
                   id \in DOMAIN idNode /\ node[idNode[id]].id = id

\* C7: getNode(id) throws UnknownNodeId when id is not in the index, and
\* otherwise returns the embedded handle for a component node and, for an
\* element / text node, null before the first render and after an unrender
\* and the node's live node while rendered.
C7_GetNode ==
    ret.op = "getNode" =>
        IF ret.id \notin DOMAIN idNode
        THEN ret.exc = UnknownNodeId
        ELSE /\ ret.exc = NoExc
             /\ LET nd == node[idNode[ret.id]]
                IN IF nd.type = "component"
                   THEN ret.val = CompRef(nd.component)
                   ELSE /\ phase \in {"fresh", "unrendered"} => ret.val = Null
                        /\ phase = "rendered" =>
                              ret.val.k = "host" /\ ret.val = nd.el

\* C8: while the tree is rendered each element node's live element carries
\* exactly the attributes of the node's attribute map, and every
\* setAttribute / removeAttribute / setDisabled call on an element root
\* returns (the id-addressed calls are stated in C10_IdAddressed).
C8_AttributesMirrored ==
    /\ Truthy(element) =>
          \A i \in DOMAIN node :
              (node[i].type = "tag" /\ node[i].el.k = "host")
                  => dom[node[i].el.v].attrs = node[i].attributes
    /\ (ret.op \in RootAttrOps /\ node[1].type = "tag") => ret.exc = NoExc

\* C9: setAttribute on an element root and setNodeAttribute(id, ...) on an
\* id-registered element, called while the tree is not rendered, return
\* and make no host call; after the next render each live element carries
\* the attributes of its node's attribute map.
C9_SetBeforeRender ==
    /\ (ret.op = "setAttribute" /\ node[1].type = "tag"
            /\ phase \in {"fresh", "unrendered"})
          => (ret.exc = NoExc /\ ret.calls = 0)
    /\ (ret.op = "setNodeAttribute" /\ RetNamed("tag")
            /\ phase \in {"fresh", "unrendered"})
          => (ret.exc = NoExc /\ ret.calls = 0)
    /\ (ret.op = "render" /\ ret.exc = NoExc) =>
          \A i \in DOMAIN node :
              node[i].type = "tag" =>
                  /\ node[i].el.k = "host"
                  /\ dom[node[i].el.v].attrs = node[i].attributes

\* C10: an id-addressed mutation called with an indexed id returns when the
\* node is an element and throws NotAnElementNode when it is a text or
\* component node, as the root operation does on a root of that type.
C10_IdAddressed ==
    (ret.op \in IdOps /\ ret.id \in DOMAIN idNode) =>
        IF node[idNode[ret.id]].type = "tag"
        THEN ret.exc = NoExc
        ELSE ret.exc = NotAnElementNode

\* The class names of the nodes in normalized form (absent = cleared)
ClassNames(nodes) == [i \in DOMAIN nodes |-> normClassName(nodes[i].className)]

\* C11: a setClassName call on an element root, or a setNodeClassName call
\* on an id-registered element, whose normalized value equals the node's
\* current class name (absent counting as cleared) returns and changes
\* neither the host document nor any node's normalized class name; this
\* covers the second of two setNodeClassName(id, "x") calls in succession.
C11_SameClassNameIsNoOp ==
    [][ /\ \A c \in ClassArgs :
              (/\ SetClassName(c)
               /\ node[1].type = "tag"
               /\ normClassName(node[1].className) = normClassName(c))
                 => (/\ ret'.exc = NoExc
                     /\ dom' = dom
                     /\ ClassNames(node') = ClassNames(node))
        /\ \A id \in MutIdArgs, c \in ClassArgs :
              (/\ SetNodeClassName(id, c)
               /\ id \in DOMAIN idNode
               /\ node[idNode[id]].type = "tag"
               /\ normClassName(node[idNode[id]].className) = normClassName(c))
                 => (/\ ret'.exc = NoExc
                     /\ dom' = dom
                     /\ ClassNames(node') = ClassNames(node)) ]_vars

\* The description a tree holds: its nodes without their live references
Described(nodes) == [i \in DOMAIN nodes |-> [nodes[i] EXCEPT !.el = Undefined]]

\* C12: construction from a static literal without duplicate ids succeeds
\* and leaves the tree holding its own copy of the literal, equal to it in
\* shape (the later independence of the copy from the caller's literal
\* rests on the construction returning a tree at all).
C12_LiteralCopied ==
    (ret.op = "new" /\ ~input.fn /\ ~HasDuplicateIds(input.desc))
        => (status = "ok" /\ Described(node) = input.desc)

\* The structure of a host subtree: node types, tags, text and children
RECURSIVE Structure(_, _)
Structure(d, h) ==
    [nodeType |-> d[h].nodeType, tagName |-> d[h].tagName, data |-> d[h].data,
     childNodes |-> [k \in DOMAIN d[h].childNodes |->
                        Structure(d, d[h].childNodes[k])]]

\* The host subtrees a returned render makes of node i, in order: one
\* element holding what its children make for an element node, one text
\* node for a text node, and for a component node what its handle appends
\* (handle 1 the root element of its own tree, handle 2 nothing).
RECURSIVE Mirror(_, _)
RECURSIVE MirrorChildren(_, _, _)
Mirror(nodes, i) ==
    CASE nodes[i].type = "tag" ->
           << [nodeType |-> "element", tagName |-> nodes[i].tagName,
               data |-> "none",
               childNodes |-> MirrorChildren(nodes, nodes[i].children, 1)] >>
      [] nodes[i].type = "text" ->
           << [nodeType |-> "text", tagName |-> "#text",
               data |-> nodes[i].text, childNodes |-> <<>>] >>
      [] OTHER ->
           IF nodes[i].component # 0 /\ HandleRendersElement(nodes[i].component)
           THEN << [nodeType |-> "element", tagName |-> "span",
                    data |-> "none", childNodes |-> <<>>] >>
           ELSE <<>>

MirrorChildren(nodes, children, k) ==
    IF k > Len(children) THEN <<>>
    ELSE Mirror(nodes, children[k]) \o MirrorChildren(nodes, children, k + 1)

\* The container's children
Children(d) == d[Container].childNodes

\* render(container) returned, appending the root live node `root` as the
\* one new child after the children the container had, which are the same
\* host nodes in the same order with the structure they had (the listeners
\* on host nodes are the subject of C14_LedgerMatchesListeners), and the
\* new child's subtree mirrors the node tree
AppendsRoot(root) ==
    /\ root.k = "host"
    /\ Children(dom') = Append(Children(dom), root.v)
    /\ \A k \in DOMAIN Children(dom) :
          Structure(dom', Children(dom)[k]) = Structure(dom, Children(dom)[k])
    /\ << Structure(dom', root.v) >> = Mirror(node', 1)

\* unrender() removed the root live node from the container, whose other
\* children are the same host nodes in the same order with the structure
\* they had
RemovesRoot(root) ==
    /\ Children(dom') = SeqWithout(Children(dom), root.v)
    /\ Len(Children(dom')) = Len(Children(dom)) - 1
    /\ \A k \in DOMAIN Children(dom') :
          Structure(dom', Children(dom')[k]) = Structure(dom, Children(dom')[k])

HandlesInside ==
    \A c \in Embedded :
        Truthy(hElement[c]) =>
            (hElement[c] = element \/ dom[hElement[c].v].parentNode # Container)

Attached ==
    UNION {{<<h, l[1], l[2]>> : l \in dom[h].listeners} : h \in DOMAIN dom}
Ledger == {eventListeners[k] : k \in DOMAIN eventListeners}

\* C14: between operations the listeners attached to host nodes are exactly
\* the (live node, event name, callback) triples of the ledger, and while
\* the tree is not rendered there is none of either.
C14_LedgerMatchesListeners ==
    status = "ok" =>
        /\ Attached = Ledger
        /\ ~Truthy(element) => Ledger = {}

(* ------------------- the builder helpers on their own ------------------ *)
(* SpecBuilder applies n.elem, n.text and n.component to the call patterns  *)
(* of their documentation.  It uses two of the variables: `input` is the    *)
(* call, [helper, hasId, id, tagName, hasOpt, opt, hasChildren, children,   *)
(* text, component], and `ret` the node object the helper returned.         *)

\* JS values of the builder's arguments.  Str, an options object and an
\* array of child nodes; a handle is a CompRef.  Absent marks a property a
\* node object does not own.
Str(s) == [k |-> "string", v |-> s]
Obj(o) == [k |-> "object", v |-> o]
Arr(a) == [k |-> "array", v |-> a]
Absent == [k |-> "absent", v |-> 0]

\* typeof x
typeof(x) ==
    CASE x.k = "string" -> "string"
      [] x.k = "undefined" -> "undefined"
      [] OTHER -> "object"

\* if (x)
JsTruthy(x) == x.k \notin {"null", "undefined", "absent"} /\ x # Str("")

\* opt.className etc.: the property of an options object, undefined when
\* the object does not own it
Prop(o, name) == IF name \in DOMAIN o.v THEN o.v[name] ELSE Undefined

\* n.elem(id, tagName, opt, children)
n_elem(id, tagName, opt, children) ==
    LET shift == typeof(tagName) = "object"
        children1 == IF shift THEN opt ELSE children
        opt1 == IF shift THEN tagName ELSE opt
        tagName1 == IF shift THEN id ELSE tagName
        id1 == IF shift THEN Null ELSE id
        children2 == IF opt1.k = "array" THEN opt1 ELSE children1
        opt2 == IF opt1.k = "array" THEN Null ELSE opt1
        own(name) == IF JsTruthy(opt2) /\ JsTruthy(Prop(opt2, name))
                     THEN Prop(opt2, name) ELSE Absent
    IN [tagName |-> tagName1,
        id |-> IF JsTruthy(id1) THEN id1 ELSE Absent,
        className |-> own("className"),
        attributes |-> own("attributes"),
        events |-> own("events"),
        children |-> IF JsTruthy(children2) THEN children2 ELSE Absent]

\* n.text(id, text)
n_text(id, text) ==
    IF typeof(text) = "undefined"
    THEN [text |-> id, id |-> Absent]
    ELSE [text |-> text, id |-> id]

\* n.component(id, component, opt)
n_component(id, component, opt) ==
    LET shift == typeof(id) # "string"
        component1 == IF shift THEN id ELSE component
        id1 == IF shift THEN Null ELSE id
    IN [component |-> component1,
        id |-> IF JsTruthy(id1) THEN id1 ELSE Absent]

\* The arguments of the documented call patterns
BuilderIds == {Str("root"), Str("a")}
BuilderTags == {Str("div"), Str("span")}
BuilderOpts ==
    {Obj([className |-> Str("box")]),
     Obj([attributes |-> Obj([type |-> Str("text")]),
          events |-> Obj([click |-> Str("onClick")])]),
     Obj([className |-> Str("box"),
          attributes |-> Obj([type |-> Str("text")])])}
BuilderChildren == {Arr(<<>>), Arr(<< n_text(Str("hi"), Undefined) >>)}
BuilderTexts == {Str("hi"), Str("root")}
BuilderHandles == {CompRef(c) : c \in Handles}

BuilderCalls ==
    [helper : {"n.elem"}, hasId : BOOLEAN, id : BuilderIds, tagName : BuilderTags,
     hasOpt : BOOLEAN, opt : BuilderOpts,
     hasChildren : BOOLEAN, children : BuilderChildren,
     text : {Undefined}, component : {Undefined}]
    \cup
    [helper : {"n.text"}, hasId : BOOLEAN, id : BuilderIds, tagName : {Undefined},
     hasOpt : {FALSE}, opt : {Undefined},
     hasChildren : {FALSE}, children : {Undefined},
     text : BuilderTexts, component : {Undefined}]
    \cup
    [helper : {"n.component"}, hasId : BOOLEAN, id : BuilderIds,
     tagName : {Undefined}, hasOpt : {FALSE}, opt : {Undefined},
     hasChildren : {FALSE}, children : {Undefined},
     text : {Undefined}, component : BuilderHandles]

\* The positional arguments of a call: the ones the pattern gives, in
\* order, and undefined for the positions after them
Args(call) ==
    LET given ==
          (IF call.hasId THEN <<call.id>> ELSE <<>>)
          \o (CASE call.helper = "n.elem" ->
                     <<call.tagName>>
                     \o (IF call.hasOpt THEN <<call.opt>> ELSE <<>>)
                     \o (IF call.hasChildren THEN <<call.children>> ELSE <<>>)
                [] call.helper = "n.text" -> <<call.text>>
                [] OTHER -> <<call.component>>)
    IN [k \in 1..4 |-> IF k <= Len(given) THEN given[k] ELSE Undefined]

BuilderPending == status = "new" /\ ret.op = "none"

BuilderReturn(op, val) ==
    /\ ret' = Ret(op, NoId, NoExc, val, 0)
    /\ UNCHANGED <<input, status, node, idNode, element, eventListeners, dom,
                   hElement, hLog, nRenders, nMutations, phase, cycle>>
    /\ UNCHANGED inputVars

CallElem ==
    /\ BuilderPending
    /\ input.helper = "n.elem"
    /\ LET a == Args(input)
       IN BuilderReturn("n.elem", n_elem(a[1], a[2], a[3], a[4]))

CallText ==
    /\ BuilderPending
    /\ input.helper = "n.text"
    /\ LET a == Args(input)
       IN BuilderReturn("n.text", n_text(a[1], a[2]))

CallComponent ==
    /\ BuilderPending
    /\ input.helper = "n.component"
    /\ LET a == Args(input)
       IN BuilderReturn("n.component", n_component(a[1], a[2], a[3]))

InitBuilder ==
    /\ input \in BuilderCalls
    /\ status = "new"
    /\ node = <<>>
    /\ idNode = EmptyMap
    /\ element = Null
    /\ eventListeners = <<>>
    /\ dom = InitDom
    /\ hElement = [c \in Handles |-> Null]
    /\ hLog = [c \in Handles |-> NoCalls]
    /\ nRenders = 0
    /\ nMutations = 0
    /\ phase = "fresh"
    /\ cycle = NoCycle
    /\ ret = Ret("none", NoId, NoExc, Undefined, 0)
    /\ inputValue = Undefined
    /\ elValue = Undefined

NextBuilder == CallElem \/ CallText \/ CallComponent

SpecBuilder == InitBuilder /\ [][NextBuilder]_vars

\* The node object the documentation of a helper promises for a call
Documented(call) ==
    LET id == IF call.hasId THEN call.id ELSE Absent
        own(name) == IF call.hasOpt /\ name \in DOMAIN call.opt.v
                     THEN call.opt.v[name] ELSE Absent
    IN CASE call.helper = "n.elem" ->
              [tagName |-> call.tagName, id |-> id,
               className |-> own("className"),
               attributes |-> own("attributes"),
               events |-> own("events"),
               children |-> IF call.hasChildren THEN call.children ELSE Absent]
         [] call.helper = "n.text" -> [text |-> call.text, id |-> id]
         [] OTHER -> [component |-> call.component, id |-> id]

\* C15: for every call pattern, elem(tag), elem(tag, options),
\* elem(tag, children), elem(tag, options, children), text(value) and
\* component(handle), each also with a leading id, the helper returns the
\* node of that tag / text / handle with the given options and children,
\* carrying the id when one was given and none otherwise.
C15_BuilderResolvesId ==
    ret.op \in {"n.elem", "n.text", "n.component"} => ret.val = Documented(input)

\* The steps of the walk render(div) makes from the current state
RenderLog(div) == _renderNode(Walk, div, 1).s.log

\* The nodes in the order the walk entered them
Visits(log) ==
    LET IsVisit(e) == e[1] = "visit"
        v == SelectSeq(log, IsVisit)
    IN [k \in DOMAIN v |-> v[k][2]]

\* The first k nodes of the tree in depth-first pre-order, siblings in
\* description order
RECURSIVE PreOrder(_, _)
RECURSIVE PreOrderChildren(_, _, _)
PreOrder(nodes, i) == <<i>> \o PreOrderChildren(nodes, nodes[i].children, 1)
PreOrderChildren(nodes, children, k) ==
    IF k > Len(children) THEN <<>>
    ELSE PreOrder(nodes, children[k]) \o PreOrderChildren(nodes, children, k + 1)

\* Step e is in the log before position k
Before(log, e, k) == \E j \in 1..(k - 1) : log[j] = e

\* The parent of node c
ParentOf(nodes, c) ==
    CHOOSE p \in DOMAIN nodes :
        \E k \in DOMAIN nodes[p].children : nodes[p].children[k] = c

\* The walk entered the nodes in depth-first pre-order, and entered no node
\* before its parent's host element was created and, where the parent has a
\* container (any node but a root rendered without one), appended to it
WalkIsPreOrder(log, div) ==
    /\ Visits(log) = SubSeq(PreOrder(node, 1), 1, Len(Visits(log)))
    /\ \A k \in DOMAIN log :
          (log[k][1] = "visit" /\ log[k][2] # 1) =>
              LET p == ParentOf(node, log[k][2])
              IN /\ Before(log, <<"create", p>>, k)
                 /\ (p # 1 \/ Truthy(div)) => Before(log, <<"append", p>>, k)

\* C16: every render call that starts a walk enters the nodes in
\* depth-first pre-order, siblings in description order, and enters a node
\* (to create it, or to delegate to its handle) only after its parent's
\* live element was created and appended to the parent's own container.
C16_RenderWalkPreOrder ==
    [][ \A div \in Divs :
            (Render(div) /\ ~Truthy(element)) => WalkIsPreOrder(RenderLog(div), div)
      ]_vars

\* C16 witness: a render of the three level tree has returned, having
\* entered all five nodes.
C16_Witness ==
    /\ input.desc = DescNested
    /\ ret.op = "render"
    /\ ret.exc = NoExc
    /\ \A i \in {1, 2, 3, 5} : Truthy(node[i].el)
    /\ Len(dom[element.v].childNodes) = 2

\* The class a live element carries for a class name: an array joined with
\* single spaces, a non-empty string as it is, none otherwise
LiveClass(className) ==
    IF ClassTruthy(className) THEN StrClass(className.toks) ELSE NullClass

\* While the tree is rendered each element node's live element carries the
\* class of the node's class name
ClassMirrored ==
    Truthy(element) =>
        \A i \in DOMAIN node :
            (node[i].type = "tag" /\ node[i].el.k = "host")
                => dom[node[i].el.v].className = LiveClass(node[i].className)

\* C17: while the tree is rendered each element node's live element
\* carries the class of the node's class name in normalized form, the class
\* name being the one given at construction or the one a setClassName call
\* on an element root or a setNodeClassName call on an id-registered
\* element, which both return, has set before or while rendered.
C17_ClassNameMirrored ==
    /\ ClassMirrored
    /\ (ret.op = "setClassName" /\ node[1].type = "tag") => ret.exc = NoExc
    /\ (ret.op = "setNodeClassName" /\ RetNamed("tag")) => ret.exc = NoExc

\* The component nodes whose handle slot is empty
EmptySlots ==
    {i \in DOMAIN node : node[i].type = "component" /\ node[i].component = 0}

\* C18: in a tree whose component nodes have an empty handle slot, a
\* render call on the unrendered tree returns, delegates to no handle,
\* leaves the slot nodes without live reference and makes the host subtree
\* of the tree without those nodes; an unrender call on the rendered tree
\* walks the nodes without error, delegates to no handle and clears every
\* live reference, and when the root is a child of the container it
\* returns, having removed exactly the root from the container.
C18_EmptySlotIsNoOp ==
    [][ (status = "ok" /\ EmptySlots # {} /\ Embedded = {}) =>
          /\ \A div \in Divs :
                (Render(div) /\ ~Truthy(element)) =>
                    /\ ret'.exc = NoExc
                    /\ hLog' = hLog
                    /\ \A i \in EmptySlots : node'[i].el = Null
                    /\ element'.k = "host"
                    /\ << Structure(dom', element'.v) >> = Mirror(node', 1)
          /\ (Unrender /\ Truthy(element)) =>
                    /\ _unrenderNode(removeListeners(Walk, 1), 1).exc = NoExc
                    /\ hLog' = hLog
                    /\ RefsEmpty(node')
                    /\ \A i \in EmptySlots : node'[i].el = Null
                    /\ dom[element.v].parentNode = Container =>
                          /\ ret'.exc = NoExc
                          /\ ~Truthy(element')
                          /\ RemovesRoot(element) ]_vars

\* C18 witness: the tree with an empty slot between two siblings was
\* rendered into the container and unrender has returned.
C18_Witness ==
    /\ input.desc = DescNested
    /\ EmptySlots = {4}
    /\ ret.op = "unrender"
    /\ ret.exc = NoExc
    /\ ret.calls = 1
    /\ nRenders > 0
    /\ RefsEmpty(node)

\* C19: every unrender call returns and leaves the root live reference
\* empty, whether the tree was rendered into a container or without one.
C19_UnrenderCompletes ==
    ret.op = "unrender" => (ret.exc = NoExc /\ ~Truthy(element))

(* --------------------------- the Input component ----------------------- *)
(* SpecInput models src/src/Input.js: an <input type="text"> whose value    *)
(* the component keeps in this.value and writes to the live element.  The   *)
(* base class RootElem is a tree of one element node, rendered into and     *)
(* removed from the container as a tree is: `element` is its root live      *)
(* reference.  `input` is the constructor's value argument.                 *)

\* value || ""
orEmpty(value) == IF JsTruthy(value) THEN value ELSE Str("")

\* The values passed to the constructor and to setValue, and the text a
\* user types into the live element
ValueArgs == {Undefined, Str(""), Str("a"), Str("b")}
TypedValues == {Str(""), Str("a"), Str("b")}

\* super.getElement(): the root live reference, null while not rendered
getElement == element

\* super.render(el): [exc, dom, val], throws when rendered, and otherwise
\* creates the input element, appends it to the container and returns it
rootElemRender ==
    IF Truthy(element)
    THEN [exc |-> AlreadyRendered, dom |-> dom, val |-> Undefined]
    ELSE LET el == Alloc(dom)
             d1 == renderAttributes(Place(dom, el, NewElement("input")), el,
                                    [a \in {"type"} |-> "text"])
         IN [exc |-> NoExc, dom |-> renderAppend(d1, HostRef(Container), el),
             val |-> HostRef(el)]

\* super.unrender(): the host document after it; nothing to do while not
\* rendered, and otherwise the root element leaves the container
rootElemUnrender ==
    IF ~Truthy(element) THEN dom
    ELSE Collect(hostRemoveChild(dom, Container, element.v), {})

\* What a call of the component leaves alone
InputReturn(op, exc, val) ==
    /\ ret' = Ret(op, NoId, exc, val, 0)
    /\ UNCHANGED <<input, node, idNode, eventListeners, hElement, hLog,
                   nRenders, nMutations, phase, cycle>>

\* new Input(value, opt)
NewInput ==
    /\ status = "new"
    /\ status' = "ok"
    /\ inputValue' = orEmpty(input)
    /\ InputReturn("new", NoExc, Undefined)
    /\ UNCHANGED <<element, dom, elValue>>

\* render(el): nodeEl = super.render(el); nodeEl.value = this.value
InputRender ==
    /\ status = "ok"
    /\ LET r == rootElemRender
       IN /\ dom' = r.dom
          /\ element' = IF r.exc = NoExc THEN r.val ELSE element
          /\ elValue' = IF r.exc = NoExc THEN inputValue ELSE elValue
          /\ InputReturn("render", r.exc, r.val)
    /\ UNCHANGED <<status, inputValue>>

\* unrender(): super.unrender()
InputUnrender ==
    /\ status = "ok"
    /\ dom' = rootElemUnrender
    /\ element' = Null
    /\ elValue' = Undefined
    /\ InputReturn("unrender", NoExc, Undefined)
    /\ UNCHANGED <<status, inputValue>>

\* getValue(): null while not rendered, else el.value
getValue == IF ~Truthy(getElement) THEN Null ELSE elValue

GetValue ==
    /\ status = "ok"
    /\ InputReturn("getValue", NoExc, getValue)
    /\ UNCHANGED <<status, element, dom, inputValue, elValue>>

\* setValue(value)
SetValue(value) ==
    /\ status = "ok"
    /\ IF orEmpty(value) = inputValue
       THEN UNCHANGED <<inputValue, elValue>>
       ELSE /\ inputValue' = orEmpty(value)
            /\ elValue' = IF Truthy(getElement) THEN orEmpty(value) ELSE elValue
    /\ InputReturn("setValue", NoExc, Undefined)
    /\ UNCHANGED <<status, element, dom>>

\* The user types into the live element: the host changes el.value
Type(text) ==
    /\ status = "ok"
    /\ Truthy(element)
    /\ elValue' = text
    /\ InputReturn("type", NoExc, Undefined)
    /\ UNCHANGED <<status, element, dom, inputValue>>

InitInput ==
    /\ input \in ValueArgs
    /\ status = "new"
    /\ node = <<>>
    /\ idNode = EmptyMap
    /\ element = Null
    /\ eventListeners = <<>>
    /\ dom = InitDom
    /\ hElement = [c \in Handles |-> Null]
    /\ hLog = [c \in Handles |-> NoCalls]
    /\ nRenders = 0
    /\ nMutations = 0
    /\ phase = "fresh"
    /\ cycle = NoCycle
    /\ ret = Ret("none", NoId, NoExc, Undefined, 0)
    /\ inputValue = Undefined
    /\ elValue = Undefined

NextInput ==
    \/ NewInput
    \/ InputRender
    \/ InputUnrender
    \/ GetValue
    \/ \E value \in ValueArgs : SetValue(value)
    \/ \E text \in TypedValues : Type(text)

SpecInput == InitInput /\ [][NextInput]_vars

\* C20: whenever setValue(v) returns while the component is rendered,
\* getValue() returns v, the empty string for an absent or empty v,
\* whatever setValue calls, render / unrender cycles and typing came before.
C20_GetValueAfterSetValue ==
    [][ \A value \in ValueArgs :
            (SetValue(value) /\ Truthy(element)) => getValue' = orEmpty(value)
      ]_vars

====
